---- MODULE Spec2Model ----
(***************************************************************************)
(* Model of the research agent (src/research_agent.py): the result-list    *)
(* parser WebSearcher.search, the page extractor                           *)
(* ContentExtractor.fetch_content, the orchestrator                        *)
(* ResearchAgent.research_topic, the formatter ResultFormatter and main(); *)
(* and of the sync command of the github agent (src/github_agent.py).      *)
(*                                                                         *)
(* Strings that the code inspects character by character (hrefs, bodies)   *)
(* are sequences of tokens; the string is the concatenation of the tokens. *)
(* An Optional value is a sequence of length 0 (None) or 1.                *)
(***************************************************************************)
EXTENDS Integers, Sequences, FiniteSets, TLC

VARIABLES
    pc,                 \* position of research_topic: "search", "loop", "done"
    query,              \* argument of research_topic
    max_results,        \* argument of research_topic
    response,           \* what the search request returned
    search_results,     \* research_topic: the list returned by searcher.search
    idx,                \* research_topic: number of stubs the for loop has consumed
    extracted_content,  \* research_topic: the accumulating list
    fetched,            \* log of the fetch_content calls: url, reply, returned value
    result,             \* Optional: the dictionary research_topic returned
    ext_pc,             \* fetch_content run alone: "idle" or "done"
    ext_url,            \* its url argument
    ext_reply,          \* the reply its GET received
    ext_result,         \* Optional: the dictionary it returned
    fmt_pc,             \* formatter run alone: "idle" or "done"
    fmt_mode,           \* "markdown", "text" or "json"
    fmt_data,           \* the document given to the formatter
    fmt_output,         \* the list `output` the formatter builds
    fmt_return,         \* the string the formatter returned
    m_pc,               \* position of main() of the research agent
    args,               \* what parse_args returned
    exit_code,          \* Optional: the exit status of the process
    trace,              \* what the run has done so far, in order
    outstanding,        \* number of HTTP requests sent and not yet answered
    file,               \* the file at --output: "old", "empty", "partial", "written"
    m_output,           \* Optional: the string the formatter returned to main()
    consumed,           \* search: number of containers the for loop has consumed
    sync_pc,            \* position of the sync command of the github agent
    sync_log,           \* the steps and git commands sync has run, in order
    sync_exit           \* Optional: the exit status of the github agent

vars == <<pc, query, max_results, response, search_results, idx, extracted_content,
          fetched, result, ext_pc, ext_url, ext_reply, ext_result,
          fmt_pc, fmt_mode, fmt_data, fmt_output, fmt_return,
          m_pc, args, exit_code, trace, outstanding, file, m_output, consumed,
          sync_pc, sync_log, sync_exit>>

topicVars == <<pc, query, max_results, response, search_results, idx,
               extracted_content, fetched, result>>
extVars == <<ext_pc, ext_url, ext_reply, ext_result>>
mainVars == <<m_pc, args, exit_code, trace, outstanding, file, m_output, consumed>>
syncVars == <<sync_pc, sync_log, sync_exit>>
fmtVars == <<fmt_pc, fmt_mode, fmt_data, fmt_output, fmt_return>>

(***************************************************************************)
(* Bounds of the model.                                                    *)
(***************************************************************************)
MaxContainers == 3      \* result containers on a results page
MaxNegative == 1        \* max_results ranges over -MaxNegative .. MaxContainers + 1
MaxNodes == 3           \* elements below <body> in a fetched page
MaxFmtResults == 1      \* results of a document given to the formatter
Slack == 2              \* body lengths range over limit - Slack .. limit + Slack
MaxMainContainers == 2  \* result containers on a results page in a run of main()

None == <<>>
Some(x) == <<x>>

Min(a, b) == IF a <= b THEN a ELSE b
Max(a, b) == IF a >= b THEN a ELSE b

(***************************************************************************)
(* URLs.  A URL is a sequence of tokens.                                   *)
(***************************************************************************)
WrapPrefix == "//duckduckgo.com/l/?"

\* url.startswith('//duckduckgo.com/l/?')
StartsWithWrapper(url) == Len(url) > 0 /\ url[1] = WrapPrefix

\* index of the first occurrence of token t in s at or after position k, 0 if none
RECURSIVE IndexFrom(_, _, _)
IndexFrom(s, t, k) ==
    IF k > Len(s) THEN 0
    ELSE IF s[k] = t THEN k
    ELSE IndexFrom(s, t, k + 1)

\* urlparse(url).query for a url that starts with the wrapper prefix: what
\* follows the '?' up to the fragment
UrlQuery(url) ==
    LET rest == SubSeq(url, 2, Len(url))
        h == IndexFrom(rest, "#", 1)
    IN  IF h = 0 THEN rest ELSE SubSeq(rest, 1, h - 1)

\* str.split('&')
RECURSIVE SplitAmp(_)
SplitAmp(q) ==
    LET a == IndexFrom(q, "&", 1)
    IN  IF a = 0 THEN <<q>>
        ELSE <<SubSeq(q, 1, a - 1)>> \o SplitAmp(SubSeq(q, a + 1, Len(q)))

NameTokens == {"uddg=", "rut="}

\* urllib's unquote of one token after '+' became a space: a valid escape is
\* decoded, an escape that is not hexadecimal stays as written, bytes that are
\* not UTF-8 become U+FFFD (errors='replace')
UnquoteToken(t) ==
    CASE t = "%3A" -> ":"
      [] t = "%2F" -> "/"
      [] t = "%26" -> "&"
      [] t = "%3F" -> "?"
      [] t = "%3D" -> "="
      [] t = "+"   -> " "
      [] t = "%FF" -> "U+FFFD"
      [] OTHER     -> t

Unquote(v) == [k \in 1..Len(v) |-> UnquoteToken(v[k])]

\* parse_qs(query).get(name, [''])[0]: the fields are split at '&', a field
\* without '=' or with a blank value is dropped, the values of the first
\* remaining field called name are decoded
RECURSIVE FirstValue(_, _)
FirstValue(fields, name) ==
    IF fields = <<>> THEN <<>>
    ELSE LET f == Head(fields)
         IN  IF Len(f) >= 2 /\ f[1] = name
             THEN Unquote(Tail(f))
             ELSE FirstValue(Tail(fields), name)

ParseQsGet(q, name) == FirstValue(SplitAmp(q), name)

\* lines 62-71: the url of the stub for the href of the title anchor
ResolveUrl(href) ==
    IF StartsWithWrapper(href)
    THEN LET actual_url == ParseQsGet(UrlQuery(href), "uddg=")
         IN  IF actual_url # <<>> THEN actual_url ELSE href
    ELSE href

\* the search engine's encoding of a destination inside a wrapper href
QuoteToken(t) ==
    CASE t = ":" -> "%3A"
      [] t = "/" -> "%2F"
      [] t = "&" -> "%26"
      [] t = "?" -> "%3F"
      [] t = "=" -> "%3D"
      [] t = " " -> "+"
      [] OTHER   -> t

Quote(u) == [k \in 1..Len(u) |-> QuoteToken(u[k])]

\* a wrapper href for destination dest, followed by the tokens of tail
Wrap(dest, tail) == <<WrapPrefix, "uddg=">> \o Quote(dest) \o tail

Schemes == {"https", "http"}
Hosts == {"a.org", "b.org"}

DestA == <<"https", ":", "/", "/", "a.org", "/", "p">>
DestB == <<"http", ":", "/", "/", "b.org", "/", "?", "k", "=", "v", "&", "w", " ", "x">>
Dests == {DestA, DestB}

RelativeHref == <<"/", "p">>
WrapMissing == <<WrapPrefix, "rut=", "r1">>
WrapEmpty == <<WrapPrefix, "uddg=", "&", "rut=", "r1">>
WrapBadEscape == <<WrapPrefix, "uddg=", "https", "%3A", "%2F", "%2F", "a.org", "%2F", "%ZZ">>
WrapBadUtf8 == <<WrapPrefix, "uddg=", "%FF", "&", "rut=", "r1">>

\* an href whose uddg value cannot be decoded: an escape that is not
\* hexadecimal, or bytes that are not UTF-8
Undecodable == {WrapBadEscape, WrapBadUtf8}

(***************************************************************************)
(* The results page: the <div class="result"> containers in document       *)
(* order.  title_tag / snippet_tag say whether result.find(...) finds the  *)
(* anchor; href is title_tag.get('href', ''), empty without the attribute. *)
(***************************************************************************)
NoAnchor ==
    [title_tag |-> FALSE, title |-> "", href |-> <<>>, snippet_tag |-> FALSE, snippet |-> ""]

Anchor(title, href, snippet_tag, snippet) ==
    [title_tag |-> TRUE, title |-> title, href |-> href,
     snippet_tag |-> snippet_tag, snippet |-> snippet]

\* the containers the orchestrator is run on
TopicContainers ==
    { NoAnchor,
      Anchor("direct", DestA, TRUE, "about a"),
      Anchor("nohref", <<>>, FALSE, ""),
      Anchor("relative", RelativeHref, TRUE, "about r"),
      Anchor("wrapped", Wrap(DestA, <<"&", "rut=", "r1">>), TRUE, "about a"),
      Anchor("nodest", WrapMissing, FALSE, "") }

\* the containers the parser is run on
Containers ==
    TopicContainers \cup
    { Anchor("wrapped b", Wrap(DestB, <<>>), TRUE, "about b"),
      Anchor("fragment", Wrap(DestA, <<"#", "frag">>), FALSE, ""),
      Anchor("emptydest", WrapEmpty, TRUE, "about e"),
      Anchor("badescape", WrapBadEscape, TRUE, "about z"),
      Anchor("badutf8", WrapBadUtf8, FALSE, "") }

RECURSIVE SeqsUpTo(_, _)
SeqsUpTo(S, n) ==
    IF n = 0 THEN {<<>>}
    ELSE LET shorter == SeqsUpTo(S, n - 1)
         IN  shorter \cup {Append(p, c) : p \in {q \in shorter : Len(q) = n - 1}, c \in S}

MaxResultsArgs == (0 - MaxNegative)..(MaxContainers + 1)

(***************************************************************************)
(* WebSearcher.search                                                      *)
(***************************************************************************)
\* Python's seq[:m]: the first m items, or all but the last -m when m < 0
SliceTo(seq, m) ==
    IF m >= 0 THEN SubSeq(seq, 1, Min(m, Len(seq)))
    ELSE SubSeq(seq, 1, Max(Len(seq) + m, 0))

\* lines 56-77: the stub of one container that has a title anchor
Stub(c) ==
    [title |-> c.title,
     url |-> ResolveUrl(c.href),
     snippet |-> IF c.snippet_tag THEN c.snippet ELSE ""]

\* lines 52-77: the loop over the capped containers
RECURSIVE ParseContainers(_)
ParseContainers(cs) ==
    IF cs = <<>> THEN <<>>
    ELSE IF Head(cs).title_tag
         THEN <<Stub(Head(cs))>> \o ParseContainers(Tail(cs))
         ELSE ParseContainers(Tail(cs))

\* the reply to the search request: a page, or a failure (timeout, connection
\* error, non-2xx status) that raises inside the try block
SearchReplies(containers) ==
    {[ok |-> FALSE, page |-> <<>>]} \cup
    {[ok |-> TRUE, page |-> p] : p \in SeqsUpTo(containers, MaxContainers)}

\* Search with the anchorless containers skipped before the cap is applied
Search_CapAfterSkip(reply, m) ==
    IF reply.ok THEN SliceTo(ParseContainers(reply.page), m) ELSE <<>>

\* search(query, max_results) given the reply to its GET
Search(reply, m) ==
    IF reply.ok THEN ParseContainers(SliceTo(reply.page, m)) ELSE <<>>

(***************************************************************************)
(* Fetched pages.  A page is the tree BeautifulSoup builds: an optional    *)
(* <title>, and (when the document has a body) the elements below <body>   *)
(* in document order, each with its depth below <body> (1 = a child of     *)
(* <body>), so that the subtree of an element is the run of deeper         *)
(* elements that follows it.  text says whether the element holds a        *)
(* non-blank string of its own; the string is named by the element's id,   *)
(* and the string of <title> by 0.  "nav" stands for the denylisted tags,   *)
(* "div" for the tags that are neither denylisted nor looked up.           *)
(***************************************************************************)
PageTags == {"main", "article", "div", "h1", "nav"}
TitleKinds == {"absent", "empty", "text"}
TitleText == 0

\* the choices for one element; its id is its position in the document
NodeChoices == [tag : PageTags, depth : 1..MaxNodes, text : BOOLEAN]

\* an element is at most one level deeper than the element before it
WellFormed(f) ==
    \A k \in 1..Len(f) : f[k].depth <= (IF k = 1 THEN 1 ELSE f[k - 1].depth + 1)

WithIds(f) ==
    [k \in 1..Len(f) |->
        [tag |-> f[k].tag, depth |-> f[k].depth, text |-> f[k].text, id |-> k]]

\* j lies in the subtree rooted at k
InSubtree(nodes, k, j) ==
    j >= k /\ \A m \in (k + 1)..j : nodes[m].depth > nodes[k].depth

\* the elements at the positions of S, in document order
Keep(nodes, S) ==
    LET F[k \in 0..Len(nodes)] ==
            IF k = 0 THEN <<>>
            ELSE IF k \in S THEN Append(F[k - 1], nodes[k]) ELSE F[k - 1]
    IN  F[Len(nodes)]

\* the element and its descendants
Subtree(nodes, k) == Keep(nodes, {j \in 1..Len(nodes) : InSubtree(nodes, k, j)})

\* soup.find(tag): the index of the first element with the tag, 0 if none
RECURSIVE FindFrom(_, _, _)
FindFrom(nodes, tag, k) ==
    IF k > Len(nodes) THEN 0
    ELSE IF nodes[k].tag = tag THEN k
    ELSE FindFrom(nodes, tag, k + 1)

Find(nodes, tag) == FindFrom(nodes, tag, 1)

\* line 123: the tags removed
Denylist == {"script", "style", "nav", "footer", "header", "aside"}

\* soup([...]): the ids of all elements with a tag of the list, document order
FindAllIds(nodes, tags) ==
    LET F[k \in 0..Len(nodes)] ==
            IF k = 0 THEN <<>>
            ELSE IF nodes[k].tag \in tags THEN Append(F[k - 1], nodes[k].id) ELSE F[k - 1]
    IN  F[Len(nodes)]

\* the index of the element with this id, 0 if it is no longer in the tree
RECURSIVE IndexOfId(_, _, _)
IndexOfId(nodes, id, k) ==
    IF k > Len(nodes) THEN 0
    ELSE IF nodes[k].id = id THEN k
    ELSE IndexOfId(nodes, id, k + 1)

\* element.decompose(): the element and its subtree leave the tree
Decompose(nodes, id) ==
    LET k == IndexOfId(nodes, id, 1)
    IN  IF k = 0 THEN nodes
        ELSE Keep(nodes, {j \in 1..Len(nodes) : ~InSubtree(nodes, k, j)})

\* lines 123-124: decompose every element the find_all returned
RECURSIVE DecomposeEach(_, _)
DecomposeEach(nodes, ids) ==
    IF ids = <<>> THEN nodes
    ELSE DecomposeEach(Decompose(nodes, Head(ids)), Tail(ids))

\* RemoveDenylisted with only the first match decomposed (find for find_all)
RemoveDenylisted_FirstOnly(nodes) ==
    LET ids == FindAllIds(nodes, Denylist)
    IN  IF ids = <<>> THEN nodes ELSE Decompose(nodes, Head(ids))

RemoveDenylisted(nodes) == DecomposeEach(nodes, FindAllIds(nodes, Denylist))

\* get_text(strip=True): the non-blank strings in document order
GetText(nodes) ==
    LET F[k \in 0..Len(nodes)] ==
            IF k = 0 THEN <<>>
            ELSE IF nodes[k].text THEN Append(F[k - 1], nodes[k].id) ELSE F[k - 1]
    IN  F[Len(nodes)]

\* html_converter.handle(str(region)): the strings with their markup
Markdown(nodes) ==
    LET F[k \in 0..Len(nodes)] ==
            IF k = 0 THEN <<>>
            ELSE IF nodes[k].text
                 THEN Append(F[k - 1],
                             [mark |-> IF nodes[k].tag = "h1" THEN "# " ELSE "",
                              text |-> nodes[k].id])
                 ELSE F[k - 1]
    IN  F[Len(nodes)]

\* lines 116-120
ExtractTitle(page) ==
    IF page.title # "absent"
    THEN IF page.title = "text" THEN <<TitleText>> ELSE <<>>
    ELSE IF Find(page.nodes, "h1") # 0
         THEN GetText(Subtree(page.nodes, Find(page.nodes, "h1")))
         ELSE <<>>

\* SelectRegion with <article> tried before <main>
SelectRegion_ArticleFirst(body, nodes) ==
    IF Find(nodes, "article") # 0 THEN Some(Subtree(nodes, Find(nodes, "article")))
    ELSE IF Find(nodes, "main") # 0 THEN Some(Subtree(nodes, Find(nodes, "main")))
    ELSE IF body THEN Some(nodes)
    ELSE None

\* SelectRegion with a region that holds no text counted as not found
SelectRegion_EmptyIsNone(body, nodes) ==
    LET found == IF Find(nodes, "main") # 0 THEN Some(Subtree(nodes, Find(nodes, "main")))
                 ELSE IF Find(nodes, "article") # 0
                      THEN Some(Subtree(nodes, Find(nodes, "article")))
                 ELSE IF body THEN Some(nodes)
                 ELSE None
    IN  IF found # None /\ GetText(found[1]) = <<>> THEN None ELSE found

\* line 127: Optional region; a Tag is true even when it is empty
SelectRegion(body, nodes) ==
    IF Find(nodes, "main") # 0 THEN Some(Subtree(nodes, Find(nodes, "main")))
    ELSE IF Find(nodes, "article") # 0 THEN Some(Subtree(nodes, Find(nodes, "article")))
    ELSE IF body THEN Some(nodes)
    ELSE None

\* lines 113-142: the value returned for a parsed page
ExtractPage(page, url) ==
    LET title == ExtractTitle(page)
        main_content == SelectRegion(page.body, RemoveDenylisted(page.nodes))
    IN  IF main_content # None
        THEN Some([title |-> title, url |-> url,
                   content |-> Markdown(main_content[1]),
                   text |-> GetText(main_content[1])])
        ELSE None

\* a url requests can send: scheme, '://', host
IsAbsolute(url) ==
    /\ Len(url) >= 5
    /\ url[1] \in Schemes /\ url[2] = ":" /\ url[3] = "/" /\ url[4] = "/"
    /\ url[5] \in Hosts

FailureKinds == {"timeout", "http_error"}

\* fetch_content(url) given the reply to its GET; every failure is caught
FetchContent(url, reply) ==
    IF reply.kind = "page" THEN ExtractPage(reply.page, url) ELSE None

(***************************************************************************)
(* ResearchAgent.research_topic                                            *)
(***************************************************************************)
Queries == {"rust ownership"}

NoPage == [title |-> "absent", body |-> FALSE, nodes |-> <<>>]
PageWithMain ==
    [title |-> "text", body |-> TRUE,
     nodes |-> <<[tag |-> "main", depth |-> 1, text |-> TRUE, id |-> 1]>>]

\* the pages the result urls serve in a run of the orchestrator
SamplePages == {PageWithMain, NoPage}

\* the replies a GET of url can receive; requests raises before sending when
\* the url has no scheme or host
FetchReplies(url, pages) ==
    IF IsAbsolute(url)
    THEN {[kind |-> k, page |-> NoPage] : k \in FailureKinds} \cup
         {[kind |-> "page", page |-> p] : p \in pages}
    ELSE {[kind |-> "invalid_url", page |-> NoPage]}

\* Collect with the stub kept, without 'extracted', when the fetch failed
Collect_KeepFailed(acc, stub, content) ==
    IF content # None
    THEN Append(acc, [title |-> stub.title, url |-> stub.url,
                      snippet |-> stub.snippet, extracted |-> content[1]])
    ELSE Append(acc, [title |-> stub.title, url |-> stub.url, snippet |-> stub.snippet])

\* lines 204-208
Collect(acc, stub, content) ==
    IF content # None
    THEN Append(acc, [title |-> stub.title, url |-> stub.url,
                      snippet |-> stub.snippet, extracted |-> content[1]])
    ELSE acc

ExtIdle ==
    /\ ext_pc = "idle"
    /\ ext_url = <<>>
    /\ ext_reply = [kind |-> "none", page |-> NoPage]
    /\ ext_result = None

FmtIdle ==
    /\ fmt_pc = "idle"
    /\ fmt_mode = "none"
    /\ fmt_data = <<>>
    /\ fmt_output = <<>>
    /\ fmt_return = <<>>

\* main() is not running
MainIdle ==
    /\ m_pc = "idle"
    /\ args = <<>>
    /\ exit_code = None
    /\ trace = <<>>
    /\ outstanding = 0
    /\ file = "old"
    /\ m_output = None
    /\ consumed = 0

\* the github agent is not running
SyncIdle ==
    /\ sync_pc = "idle"
    /\ sync_log = <<>>
    /\ sync_exit = None

TopicStart ==
    /\ pc = "search"
    /\ query \in Queries
    /\ max_results \in MaxResultsArgs
    /\ response = [ok |-> FALSE, page |-> <<>>]
    /\ search_results = <<>>
    /\ idx = 0
    /\ extracted_content = <<>>
    /\ fetched = <<>>
    /\ result = None

Init == TopicStart /\ ExtIdle /\ FmtIdle /\ MainIdle /\ SyncIdle

\* lines 179-183: the search and the early return
TopicSearch ==
    /\ pc = "search"
    /\ \E reply \in SearchReplies(TopicContainers) :
          LET found == Search(reply, max_results)
          IN  /\ response' = reply
              /\ search_results' = found
              /\ IF found = <<>>
                 THEN /\ pc' = "done"
                      /\ result' = Some([query |-> query, results |-> <<>>])
                 ELSE /\ pc' = "loop"
                      /\ result' = result
    /\ UNCHANGED <<query, max_results, idx, extracted_content, fetched>>
    /\ UNCHANGED <<extVars, fmtVars, mainVars, syncVars>>

\* lines 199-210: one iteration of the for loop
TopicFetch ==
    /\ pc = "loop"
    /\ idx < Len(search_results)
    /\ LET stub == search_results[idx + 1]
       IN  \E reply \in FetchReplies(stub.url, SamplePages) :
              LET content == FetchContent(stub.url, reply)
              IN  /\ extracted_content' = Collect(extracted_content, stub, content)
                  /\ fetched' = Append(fetched, [url |-> stub.url, kind |-> reply.kind,
                                                 content |-> content])
    /\ idx' = idx + 1
    /\ UNCHANGED <<pc, query, max_results, response, search_results, result>>
    /\ UNCHANGED <<extVars, fmtVars, mainVars, syncVars>>

\* lines 212-217
TopicReturn ==
    /\ pc = "loop"
    /\ idx = Len(search_results)
    /\ result' = Some([query |-> query, results |-> extracted_content])
    /\ pc' = "done"
    /\ UNCHANGED <<query, max_results, response, search_results, idx,
                   extracted_content, fetched>>
    /\ UNCHANGED <<extVars, fmtVars, mainVars, syncVars>>

Next == TopicSearch \/ TopicFetch \/ TopicReturn

Spec == Init /\ [][Next]_vars

(***************************************************************************)
(* WebSearcher.search run on its own, on every page of the bounds          *)
(***************************************************************************)
SearchOnly ==
    /\ pc = "search"
    /\ \E reply \in SearchReplies(Containers) :
          /\ response' = reply
          /\ search_results' = Search(reply, max_results)
    /\ pc' = "done"
    /\ UNCHANGED <<query, max_results, idx, extracted_content, fetched, result>>
    /\ UNCHANGED <<extVars, fmtVars, mainVars, syncVars>>

SpecSearch == Init /\ [][SearchOnly]_vars

(***************************************************************************)
(* ContentExtractor.fetch_content run on its own, on every page of the     *)
(* bounds                                                                  *)
(***************************************************************************)
TopicIdle ==
    /\ pc = "idle"
    /\ query = ""
    /\ max_results = 0
    /\ response = [ok |-> FALSE, page |-> <<>>]
    /\ search_results = <<>>
    /\ idx = 0
    /\ extracted_content = <<>>
    /\ fetched = <<>>
    /\ result = None

InitExtract == TopicIdle /\ ExtIdle /\ FmtIdle /\ MainIdle /\ SyncIdle

\* the GET fails: lines 110-111 raise, lines 144-146 return None
ExtractFailed ==
    /\ ext_pc = "idle"
    /\ \E url \in {DestA}, k \in FailureKinds :
          LET reply == [kind |-> k, page |-> NoPage]
          IN  /\ ext_url' = url
              /\ ext_reply' = reply
              /\ ext_result' = FetchContent(url, reply)
    /\ ext_pc' = "done"
    /\ UNCHANGED <<topicVars, fmtVars, mainVars, syncVars>>

\* the GET returns a page: lines 113-142
ExtractFetched ==
    /\ ext_pc = "idle"
    /\ \E url \in {DestA}, t \in TitleKinds, body \in BOOLEAN, n \in 0..MaxNodes :
          \E f \in [1..n -> NodeChoices] :
             /\ body \/ n = 0
             /\ WellFormed(f)
             /\ LET reply == [kind |-> "page",
                              page |-> [title |-> t, body |-> body, nodes |-> WithIds(f)]]
                IN  /\ ext_url' = url
                    /\ ext_reply' = reply
                    /\ ext_result' = FetchContent(url, reply)
    /\ ext_pc' = "done"
    /\ UNCHANGED <<topicVars, fmtVars, mainVars, syncVars>>

NextExtract == ExtractFailed \/ ExtractFetched

SpecExtract == InitExtract /\ [][NextExtract]_vars

(***************************************************************************)
(* ResultFormatter.  A formatted string is the sequence of its tokens; a   *)
(* body is a sequence of one-character tokens.                             *)
(***************************************************************************)
MarkdownLimit == 5000
TextLimit == 3000

MarkdownMarker ==
    <<"\n", "\n", "*", "[", "C", "o", "n", "t", "e", "n", "t", " ",
      "t", "r", "u", "n", "c", "a", "t", "e", "d", ".", ".", ".", "]", "*">>
TextMarker ==
    <<"\n", "[", "C", "o", "n", "t", "e", "n", "t", " ",
      "t", "r", "u", "n", "c", "a", "t", "e", "d", ".", ".", ".", "]">>

\* Truncate with the comparison off by one
Truncate_AtLimit(content, limit, marker) ==
    IF Len(content) >= limit THEN SubSeq(content, 1, limit) \o marker ELSE content

\* lines 271-272 and 307-308
Truncate(content, limit, marker) ==
    IF Len(content) > limit THEN SubSeq(content, 1, limit) \o marker ELSE content

\* str(i) of a small count
NumStr(i) ==
    CASE i = 0 -> "0" [] i = 1 -> "1" [] i = 2 -> "2" [] i = 3 -> "3"
      [] i = 4 -> "4" [] i = 5 -> "5" [] OTHER -> "many"

\* '\n'.join(output)
RECURSIVE Join(_)
Join(output) ==
    IF output = <<>> THEN <<>>
    ELSE IF Len(output) = 1 THEN output[1]
    ELSE output[1] \o <<"\n">> \o Join(Tail(output))

\* lines 263-275: what one result appends to output
MarkdownResult(i, r) ==
    << <<"## ", NumStr(i), ". ", r.title, "\n">>,
       <<"**URL:** ", r.url, "\n">>,
       <<"**Summary:** ", r.snippet, "\n">> >>
    \o (IF "extracted" \in DOMAIN r
        THEN << <<"\n### Content\n">>,
                Truncate(r.extracted.content, MarkdownLimit, MarkdownMarker) >>
        ELSE <<>>)
    \o << <<"\n---\n">> >>

RECURSIVE MarkdownResults(_, _)
MarkdownResults(results, i) ==
    IF i > Len(results) THEN <<>>
    ELSE MarkdownResult(i, results[i]) \o MarkdownResults(results, i + 1)

\* lines 255-284: the list output
MarkdownOutput(data) ==
    IF "query" \in DOMAIN data
    THEN << <<"# Research: ", data.query, "\n">>,
            <<"*Generated by Research Agent*\n">>,
            <<"*Found ", NumStr(Len(data.results)), " results*\n">>,
            <<"---\n">> >>
         \o MarkdownResults(data.results, 1)
    ELSE << <<"# ", data.title, "\n">>,
            <<"**URL:** ", data.url, "\n">>,
            <<"\n---\n">>,
            data.content >>

\* lines 299-311: what one result appends to output
TextResult(i, r) ==
    << <<"\n", NumStr(i), ". ", r.title, "\n">>,
       <<"URL: ", r.url, "\n">>,
       <<"Summary: ", r.snippet, "\n">> >>
    \o (IF "extracted" \in DOMAIN r
        THEN << <<"\nContent:\n">>,
                Truncate(r.extracted.text, TextLimit, TextMarker) >>
        ELSE <<>>)
    \o << <<"\n", "-*80", "\n">> >>

RECURSIVE TextResults(_, _)
TextResults(results, i) ==
    IF i > Len(results) THEN <<>>
    ELSE TextResult(i, results[i]) \o TextResults(results, i + 1)

\* lines 294-319: the list output
TextOutput(data) ==
    IF "query" \in DOMAIN data
    THEN << <<"Research: ", data.query, "\n">>,
            <<"Found ", NumStr(Len(data.results)), " results\n">>,
            <<"=*80", "\n">> >>
         \o TextResults(data.results, 1)
    ELSE << <<data.title, "\n">>,
            <<"URL: ", data.url, "\n">>,
            <<"=*80", "\n">>,
            data.text >>

(***************************************************************************)
(* The formatter run on its own, on documents whose bodies have lengths    *)
(* around the two limits                                                   *)
(***************************************************************************)
Alphabet == <<"a", "b", "\n">>

\* a body of n characters
Body(n, shift) == [k \in 1..n |-> Alphabet[((k + shift) % 3) + 1]]

BodyLengths ==
    {0, 1, 4000, 6000} \cup
    ((TextLimit - Slack)..(TextLimit + Slack)) \cup
    ((MarkdownLimit - Slack)..(MarkdownLimit + Slack))

Shifts == 0..2

\* ExtractedContent whose markdown and plain text have n characters
Extracted(n, shift) ==
    [title |-> "page", url |-> "https://a.org/p",
     content |-> Body(n, shift), text |-> Body(n, shift + 1)]

FmtResult(n, shift) ==
    [title |-> "hit", url |-> "https://a.org/p", snippet |-> "about a",
     extracted |-> Extracted(n, shift)]

InitFormat == TopicIdle /\ ExtIdle /\ FmtIdle /\ MainIdle /\ SyncIdle

\* a topic-mode document whose k-th result has a body of lens[k] characters
FmtTopicDoc(lens, shift) ==
    [query |-> "rust ownership",
     results |-> [k \in 1..Len(lens) |-> FmtResult(lens[k], shift)]]

FormatWith(mode, data) ==
    LET output == IF mode = "markdown" THEN MarkdownOutput(data) ELSE TextOutput(data)
    IN  /\ fmt_mode' = mode
        /\ fmt_data' = data
        /\ fmt_output' = output
        /\ fmt_return' = Join(output)
        /\ fmt_pc' = "done"
        /\ UNCHANGED <<topicVars, extVars, mainVars, syncVars>>

\* format_markdown / format_text on a topic-mode document
FormatTopic ==
    /\ fmt_pc = "idle"
    /\ \E mode \in {"markdown", "text"}, n \in 1..MaxFmtResults, shift \in Shifts :
          \E lens \in [1..n -> BodyLengths] : FormatWith(mode, FmtTopicDoc(lens, shift))

\* format_markdown / format_text on a url-mode document
FormatUrl ==
    /\ fmt_pc = "idle"
    /\ \E mode \in {"markdown", "text"}, n \in BodyLengths, shift \in Shifts :
          FormatWith(mode, Extracted(n, shift))

NextFormat == FormatTopic \/ FormatUrl

SpecFormat == InitFormat /\ [][NextFormat]_vars

(***************************************************************************)
(* Properties of research_topic and of search                              *)
(***************************************************************************)
Returned == pc = "done" /\ result # None
Results == result[1].results

SameStub(r, stub) ==
    r.title = stub.title /\ r.url = stub.url /\ r.snippet = stub.snippet

\* the ranks (positions in search_results) whose fetch_content returned a value
SucceededRanks == {k \in 1..Len(fetched) : fetched[k].content # None}

\* the number of succeeded ranks up to k
SucceededUpTo(k) == Cardinality({j \in SucceededRanks : j <= k})

IsSubsequence(rs, stubs) ==
    \E f \in [1..Len(rs) -> 1..Len(stubs)] :
        /\ \A a, b \in 1..Len(rs) : a < b => f[a] < f[b]
        /\ \A a \in 1..Len(rs) : SameStub(rs[a], stubs[f[a]])

\* C2: the returned results have at most max_results entries (a negative
\* max_results asks for none) and are a subsequence of the parsed stubs in
\* their on-page order.
C2_AtMostMaxResults ==
    Returned =>
        /\ Len(Results) <= Max(max_results, 0)
        /\ IsSubsequence(Results, search_results)

Searched == pc = "done" /\ response.ok
Containers_ == response.page
Anchored == {k \in 1..Len(Containers_) : Containers_[k].title_tag}

\* the number of containers with a title anchor among the first k
AnchoredUpTo(k) == Cardinality({j \in Anchored : j <= k})

\* C3 as stated: with K containers that have a title anchor and M >= 0, search
\* returns min(K, M) stubs: the stubs of the first min(K, M) such containers.
C3_AsStated ==
    (Searched /\ max_results >= 0) =>
        /\ Len(search_results) = Min(Cardinality(Anchored), max_results)
        /\ \A k \in Anchored :
              AnchoredUpTo(k) <= max_results =>
                 /\ AnchoredUpTo(k) <= Len(search_results)
                 /\ search_results[AnchoredUpTo(k)].title = Containers_[k].title

\* C3 amended: with M >= 0, search returns one stub for each container with a
\* title anchor among the first M containers of the page, anchored or not, in
\* document order; so at most min(K, M) stubs, and exactly min(K, M) when no
\* anchorless container is among the first M.
C3_CapBeforeSkip ==
    (Searched /\ max_results >= 0) =>
        LET cap == Min(max_results, Len(Containers_))
        IN  /\ Len(search_results) = AnchoredUpTo(cap)
            /\ \A k \in Anchored :
                  k <= cap =>
                     /\ search_results[AnchoredUpTo(k)].title = Containers_[k].title
                     /\ search_results[AnchoredUpTo(k)].url = ResolveUrl(Containers_[k].href)
            /\ Len(search_results) <= Min(Cardinality(Anchored), max_results)
            /\ (\A k \in 1..cap : k \in Anchored) =>
                  Len(search_results) = Min(Cardinality(Anchored), max_results)

\* an anchorless container comes first, two anchored ones follow, M = 2
C3_Witness ==
    /\ Searched
    /\ max_results = 2
    /\ Len(Containers_) = 3
    /\ Anchored = {2, 3}
    /\ Len(search_results) = 1

WrapTails == {<<>>, <<"&", "rut=", "r1">>, <<"#", "frag">>}

\* C4: for a title anchor whose href is a redirect wrapper, the url of the stub
\* is the destination when the uddg parameter holds one, and the href as
\* written when the parameter is missing, empty or cannot be decoded; the stub
\* is emitted either way.
C4_WrapperResolved ==
    (Searched /\ max_results >= 0) =>
        \A k \in Anchored :
            (k <= max_results /\ StartsWithWrapper(Containers_[k].href)) =>
                LET href == Containers_[k].href
                    n == AnchoredUpTo(k)
                IN  /\ n <= Len(search_results)
                    /\ \A dest \in Dests, tail \in WrapTails :
                          href = Wrap(dest, tail) => search_results[n].url = dest
                    /\ href \in {WrapMissing, WrapEmpty} \cup Undecodable =>
                          search_results[n].url = href

\* C5: every url given to fetch_content is absolute and is no redirect wrapper.
C5_FetchedAbsolute ==
    \A k \in 1..Len(fetched) :
        IsAbsolute(fetched[k].url) /\ ~StartsWithWrapper(fetched[k].url)

(***************************************************************************)
(* Properties of fetch_content                                             *)
(***************************************************************************)
Extracted_ == ext_pc = "done" /\ ext_reply.kind = "page"
Page == ext_reply.page
Original == Page.nodes

DeniedTags == {"script", "style", "nav", "footer", "header", "aside"}

\* the element k of the fetched page is, or lies inside, a denylisted element
InsideDenied(k) ==
    \E a \in 1..k : Original[a].tag \in DeniedTags /\ InSubtree(Original, a, k)

\* the ids of the strings of the markdown and of the plain text returned
MarkdownIds == {ext_result[1].content[j].text : j \in 1..Len(ext_result[1].content)}
PlainIds == {ext_result[1].text[j] : j \in 1..Len(ext_result[1].text)}

\* C6: no string of the markdown or of the plain text returned comes from an
\* element that is, or lies at any depth inside, a denylisted element; also
\* not when that element lies inside the region that was selected or around it.
C6_NoDeniedText ==
    (Extracted_ /\ ext_result # None) =>
        \A k \in MarkdownIds \cup PlainIds : ~InsideDenied(k)

\* <main> holds a <div> that holds a <nav> with text; the div's text is returned
C6_Witness ==
    /\ Extracted_ /\ ext_result # None
    /\ Len(Original) = 3
    /\ Original[1].tag = "main" /\ Original[2].tag = "div" /\ Original[3].tag = "nav"
    /\ Original[2].depth = 2 /\ Original[3].depth = 3
    /\ Original[2].text /\ Original[3].text
    /\ PlainIds = {2}

\* the elements of the fetched page outside every denylisted element
Remaining == Keep(Original, {k \in 1..Len(Original) : ~InsideDenied(k)})

HasTag(nodes, tag) == \E k \in 1..Len(nodes) : nodes[k].tag = tag
FirstWith(nodes, tag) == CHOOSE k \in 1..Len(nodes) :
    nodes[k].tag = tag /\ \A j \in 1..(k - 1) : nodes[j].tag # tag

\* the returned value renders exactly the elements of region
Renders(region) ==
    /\ ext_result # None
    /\ ext_result[1].text = GetText(region)
    /\ ext_result[1].content = Markdown(region)

\* C7: the region rendered is the first <main> that remains after the denylist
\* removal; without one the first <article>; without one the body.
C7_RegionPriority ==
    Extracted_ =>
        /\ HasTag(Remaining, "main") =>
              Renders(Subtree(Remaining, FirstWith(Remaining, "main")))
        /\ (~HasTag(Remaining, "main") /\ HasTag(Remaining, "article")) =>
              Renders(Subtree(Remaining, FirstWith(Remaining, "article")))
        /\ (~HasTag(Remaining, "main") /\ ~HasTag(Remaining, "article") /\ Page.body) =>
              Renders(Remaining)

\* an <article> with text comes before a <main> with text: the main is rendered
C7_Witness ==
    /\ Extracted_
    /\ Len(Original) = 3
    /\ Original[1].tag = "article" /\ Original[1].text
    /\ Original[2].tag = "div" /\ Original[2].text /\ Original[2].depth = 1
    /\ Original[3].tag = "main" /\ Original[3].text /\ Original[3].depth = 1
    /\ ext_result # None
    /\ ext_result[1].text = <<3>>

\* the body of the fetched page holds no extractable text
NoExtractableText == GetText(Remaining) = <<>>

\* C8 as stated: a page whose body holds no extractable text yields None.
C8_AsStated ==
    (Extracted_ /\ NoExtractableText) => ext_result = None

\* C8 amended: for a page whose body holds no extractable text, None is
\* returned only when the document has no <main>, <article> or <body> element;
\* when the body exists, an ExtractedContent is returned whose markdown and
\* plain text hold no text.
C8_EmptyNotAbsent ==
    (Extracted_ /\ NoExtractableText) =>
        /\ (ext_result = None) <=> ~Page.body
        /\ Page.body => (ext_result[1].text = <<>> /\ ext_result[1].content = <<>>)

\* the body's only content is a <nav> with text: a value is returned
C8_Witness ==
    /\ Extracted_
    /\ Page.body
    /\ Len(Original) = 1 /\ Original[1].tag = "nav" /\ Original[1].text
    /\ ext_result # None
    /\ ext_result[1].text = <<>>

\* C9: the title is the <title> text when it is not empty; otherwise (no
\* <title>, or an empty one) the text of the first <h1>; otherwise empty.
C9_TitleFallback ==
    (Extracted_ /\ ext_result # None) =>
        ext_result[1].title =
            IF Page.title = "text" THEN <<TitleText>>
            ELSE IF HasTag(Original, "h1")
                 THEN GetText(Subtree(Original, FirstWith(Original, "h1")))
                 ELSE <<>>

(***************************************************************************)
(* Properties of the formatter                                             *)
(***************************************************************************)
FormattedTopic == fmt_pc = "done" /\ "query" \in DOMAIN fmt_data

Limit == IF fmt_mode = "markdown" THEN MarkdownLimit ELSE TextLimit
Marker == IF fmt_mode = "markdown" THEN MarkdownMarker ELSE TextMarker

\* the body of the k-th result, and the item of output that holds it: the
\* header has 4 items in markdown and 3 in text, a result has 6
BodyOf(k) ==
    IF fmt_mode = "markdown" THEN fmt_data.results[k].extracted.content
    ELSE fmt_data.results[k].extracted.text
EmittedBody(k) ==
    fmt_output[(IF fmt_mode = "markdown" THEN 4 ELSE 3) + 6 * (k - 1) + 5]

\* C10: a body longer than the limit (5000 markdown, 3000 text) is emitted as
\* its first limit characters followed by the truncation marker; a body of at
\* most limit characters is emitted as it is.
C10_Truncation ==
    FormattedTopic =>
        \A k \in 1..Len(fmt_data.results) :
            LET body == BodyOf(k)
                emitted == EmittedBody(k)
            IN  IF Len(body) > Limit
                THEN /\ Len(emitted) = Limit + Len(Marker)
                     /\ \A j \in 1..Limit : emitted[j] = body[j]
                     /\ \A j \in 1..Len(Marker) : emitted[Limit + j] = Marker[j]
                ELSE emitted = body

\* a markdown body of exactly 5000 characters is emitted whole
C10_Witness ==
    /\ FormattedTopic
    /\ fmt_mode = "markdown"
    /\ Len(BodyOf(1)) = MarkdownLimit
    /\ EmittedBody(1) = BodyOf(1)

(***************************************************************************)
(* ResultFormatter.format_json: json.dumps(data, indent=2,                 *)
(* ensure_ascii=False).  A JSON text is the sequence of its characters; a  *)
(* Python value is a tree of nodes [t, s, keys, kids]: a str carries its   *)
(* characters in s, a dict its keys (in insertion order) and its values,   *)
(* a list its items.                                                       *)
(***************************************************************************)
JStr(chars) == [t |-> "str", s |-> chars, keys |-> <<>>, kids |-> <<>>]
JArr(items) == [t |-> "arr", s |-> <<>>, keys |-> <<>>, kids |-> items]
JObj(keys, values) == [t |-> "obj", s |-> <<>>, keys |-> keys, kids |-> values]

\* the characters of the keys of the result documents
KeyChars(k) ==
    CASE k = "query" -> <<"q", "u", "e", "r", "y">>
      [] k = "results" -> <<"r", "e", "s", "u", "l", "t", "s">>
      [] k = "title" -> <<"t", "i", "t", "l", "e">>
      [] k = "url" -> <<"u", "r", "l">>
      [] k = "snippet" -> <<"s", "n", "i", "p", "p", "e", "t">>
      [] k = "extracted" -> <<"e", "x", "t", "r", "a", "c", "t", "e", "d">>
      [] k = "content" -> <<"c", "o", "n", "t", "e", "n", "t">>
      [] k = "text" -> <<"t", "e", "x", "t">>

\* the dict fetch_content returns (lines 135-140), as a value
ExtractedValue(e) ==
    JObj(<<KeyChars("title"), KeyChars("url"), KeyChars("content"), KeyChars("text")>>,
         <<JStr(e.title), JStr(e.url), JStr(e.content), JStr(e.text)>>)

\* one item of 'results' (lines 205-208), as a value
ResultValue(r) ==
    JObj(<<KeyChars("title"), KeyChars("url"), KeyChars("snippet"), KeyChars("extracted")>>,
         <<JStr(r.title), JStr(r.url), JStr(r.snippet), ExtractedValue(r.extracted)>>)

\* the document handed to the formatter (lines 214-217 or 135-140), as a value
DocValue(data) ==
    IF "query" \in DOMAIN data
    THEN JObj(<<KeyChars("query"), KeyChars("results")>>,
              <<JStr(data.query),
                JArr([k \in 1..Len(data.results) |-> ResultValue(data.results[k])])>>)
    ELSE ExtractedValue(data)

\* json.dumps: the escape of one character of a str (ensure_ascii=False
\* leaves every other character as it is)
EscapeChar(c) ==
    CASE c = "\"" -> <<"\\", "\"">>
      [] c = "\\" -> <<"\\", "\\">>
      [] c = "\n" -> <<"\\", "n">>
      [] c = "\r" -> <<"\\", "r">>
      [] c = "\t" -> <<"\\", "t">>
      [] OTHER -> <<c>>

RECURSIVE EscapeRange(_, _, _)
EscapeRange(s, lo, hi) ==
    IF lo > hi THEN <<>>
    ELSE IF lo = hi THEN EscapeChar(s[lo])
    ELSE LET mid == (lo + hi) \div 2
         IN  EscapeRange(s, lo, mid) \o EscapeRange(s, mid + 1, hi)

\* a str with every character, but cut the way format_markdown cuts
DumpsStr_Truncated(chars) ==
    LET kept == Truncate(chars, MarkdownLimit, MarkdownMarker)
    IN  <<"\"">> \o EscapeRange(kept, 1, Len(kept)) \o <<"\"">>

\* json.dumps of a str
DumpsStr(chars) ==
    <<"\"">> \o EscapeRange(chars, 1, Len(chars)) \o <<"\"">>

\* indent=2: a newline and two spaces per level
Newline(level) == <<"\n">> \o [k \in 1..(2 * level) |-> " "]

RECURSIVE DumpsAt(_, _)
RECURSIVE DumpsItems(_, _, _)
RECURSIVE DumpsMembers(_, _, _)

DumpsItems(v, k, level) ==
    IF k > Len(v.kids) THEN <<>>
    ELSE (IF k > 1 THEN <<",">> ELSE <<>>)
         \o Newline(level) \o DumpsAt(v.kids[k], level)
         \o DumpsItems(v, k + 1, level)

DumpsMembers(v, k, level) ==
    IF k > Len(v.kids) THEN <<>>
    ELSE (IF k > 1 THEN <<",">> ELSE <<>>)
         \o Newline(level) \o DumpsStr(v.keys[k]) \o <<":", " ">>
         \o DumpsAt(v.kids[k], level)
         \o DumpsMembers(v, k + 1, level)

\* json.dumps of a value at a nesting level
DumpsAt(v, level) ==
    CASE v.t = "str" -> DumpsStr(v.s)
      [] v.t = "arr" ->
            IF v.kids = <<>> THEN <<"[", "]">>
            ELSE <<"[">> \o DumpsItems(v, 1, level + 1) \o Newline(level) \o <<"]">>
      [] v.t = "obj" ->
            IF v.kids = <<>> THEN <<"{", "}">>
            ELSE <<"{">> \o DumpsMembers(v, 1, level + 1) \o Newline(level) \o <<"}">>

\* line 289
FormatJsonOutput(data) == DumpsAt(DocValue(data), 0)

(***************************************************************************)
(* json.loads, the reader the round trip is measured with                  *)
(***************************************************************************)
\* the number of backslashes that end just before position j, not before lo
RECURSIVE BackslashRun(_, _, _)
BackslashRun(s, j, lo) ==
    IF j - 1 < lo \/ s[j - 1] # "\\" THEN 0 ELSE 1 + BackslashRun(s, j - 1, lo)

\* position p starts an escape pair of the str whose characters start at lo
EscapeStart(s, p, lo) == s[p] = "\\" /\ BackslashRun(s, p, lo) % 2 = 0

\* the closing quote of the str whose characters start at lo
ClosingQuote(s, lo) ==
    LET quotes == {j \in lo..Len(s) : s[j] = "\"" /\ BackslashRun(s, j, lo) % 2 = 0}
    IN  IF quotes = {} THEN Len(s) + 1
        ELSE CHOOSE j \in quotes : \A k \in quotes : j <= k

UnescapeChar(c) ==
    CASE c = "n" -> "\n"
      [] c = "r" -> "\r"
      [] c = "t" -> "\t"
      [] OTHER -> c

RECURSIVE UnescapeRange(_, _, _, _)
UnescapeRange(s, lo, hi, start) ==
    IF lo > hi THEN <<>>
    ELSE IF lo = hi
    THEN IF EscapeStart(s, lo, start) THEN <<>>
         ELSE IF lo > start /\ EscapeStart(s, lo - 1, start) THEN <<UnescapeChar(s[lo])>>
         ELSE <<s[lo]>>
    ELSE LET mid == (lo + hi) \div 2
         IN  UnescapeRange(s, lo, mid, start) \o UnescapeRange(s, mid + 1, hi, start)

RECURSIVE SkipWs(_, _)
SkipWs(s, i) ==
    IF i <= Len(s) /\ s[i] \in {" ", "\n"} THEN SkipWs(s, i + 1) ELSE i

Malformed(i) == [val |-> [t |-> "malformed", s |-> <<>>, keys |-> <<>>, kids |-> <<>>],
                 next |-> i]

RECURSIVE ParseValue(_, _)
RECURSIVE ParseItems(_, _, _)
RECURSIVE ParseMembers(_, _, _, _)

\* the items of a list from position i on, after the items in acc
ParseItems(s, i, acc) ==
    LET item == ParseValue(s, SkipWs(s, i))
        j == SkipWs(s, item.next)
    IN  IF item.val.t = "malformed" \/ j > Len(s) THEN Malformed(j)
        ELSE IF s[j] = "," THEN ParseItems(s, j + 1, Append(acc, item.val))
        ELSE IF s[j] = "]" THEN [val |-> JArr(Append(acc, item.val)), next |-> j + 1]
        ELSE Malformed(j)

\* the members of a dict from position i on, after the members in keys, values
ParseMembers(s, i, keys, values) ==
    LET key == ParseValue(s, SkipWs(s, i))
        c == SkipWs(s, key.next)
    IN  IF key.val.t # "str" \/ c > Len(s) \/ s[c] # ":" THEN Malformed(c)
        ELSE LET value == ParseValue(s, SkipWs(s, c + 1))
                 j == SkipWs(s, value.next)
             IN  IF value.val.t = "malformed" \/ j > Len(s) THEN Malformed(j)
                 ELSE IF s[j] = ","
                 THEN ParseMembers(s, j + 1, Append(keys, key.val.s),
                                   Append(values, value.val))
                 ELSE IF s[j] = "}"
                 THEN [val |-> JObj(Append(keys, key.val.s), Append(values, value.val)),
                       next |-> j + 1]
                 ELSE Malformed(j)

\* the value that starts at position i, and the position after it
ParseValue(s, i) ==
    IF i > Len(s) THEN Malformed(i)
    ELSE CASE s[i] = "\"" ->
                 LET close == ClosingQuote(s, i + 1)
                 IN  IF close > Len(s) THEN Malformed(close)
                     ELSE [val |-> JStr(UnescapeRange(s, i + 1, close - 1, i + 1)),
                           next |-> close + 1]
           [] s[i] = "[" ->
                 LET j == SkipWs(s, i + 1)
                 IN  IF j <= Len(s) /\ s[j] = "]"
                     THEN [val |-> JArr(<<>>), next |-> j + 1]
                     ELSE ParseItems(s, j, <<>>)
           [] s[i] = "{" ->
                 LET j == SkipWs(s, i + 1)
                 IN  IF j <= Len(s) /\ s[j] = "}"
                     THEN [val |-> JObj(<<>>, <<>>), next |-> j + 1]
                     ELSE ParseMembers(s, j, <<>>, <<>>)
           [] OTHER -> Malformed(i)

\* json.loads of a whole text
Loads(s) ==
    LET parsed == ParseValue(s, SkipWs(s, 1))
    IN  IF SkipWs(s, parsed.next) = Len(s) + 1 THEN parsed.val ELSE Malformed(1).val

(***************************************************************************)
(* format_json run on its own, on documents whose strings hold the         *)
(* characters JSON escapes and whose bodies are longer than both limits    *)
(***************************************************************************)
JsonStrings ==
    { <<>>, <<"a">>, <<"\"">>, <<"\\">>, <<"\\", "n">>, <<"\n">>, <<"\t", "\r">>,
      <<"a", "\"", "b", "\\">>, <<"}", ",", "{", "]", ":", " ">>, <<"\\", "\"">>,
      <<"\\", "\\", "\"">> }

JsonPrefixes == { <<>>, <<"\\", "\"">> }

LongLengths == {TextLimit + Slack, MarkdownLimit + Slack, 6000}

JsonExtracted(short, body) ==
    [title |-> short, url |-> <<"h", ":", "/", "/", "a">>, content |-> body, text |-> body]

JsonResult(short, body) ==
    [title |-> short, url |-> <<"h", ":", "/", "/", "a">>, snippet |-> short,
     extracted |-> JsonExtracted(short, body)]

JsonTopicDoc(short, body, n) ==
    [query |-> short, results |-> [k \in 1..n |-> JsonResult(short, body)]]

FormatJsonOf(data) ==
    /\ fmt_mode' = "json"
    /\ fmt_data' = data
    /\ fmt_output' = <<>>
    /\ fmt_return' = FormatJsonOutput(data)
    /\ fmt_pc' = "done"
    /\ UNCHANGED <<topicVars, extVars, mainVars, syncVars>>

\* format_json on a document with short bodies
FormatJsonShort ==
    /\ fmt_pc = "idle"
    /\ \E short \in JsonStrings, body \in JsonStrings, n \in 0..MaxFmtResults :
          \/ FormatJsonOf(JsonTopicDoc(short, body, n))
          \/ n = 0 /\ FormatJsonOf(JsonExtracted(short, body))

\* format_json on a document with bodies longer than the limits of the
\* other two formats
FormatJsonLong ==
    /\ fmt_pc = "idle"
    /\ \E prefix \in JsonPrefixes, len \in LongLengths, shift \in Shifts,
          n \in 1..MaxFmtResults :
          \/ FormatJsonOf(JsonTopicDoc(prefix, prefix \o Body(len, shift), n))
          \/ n = 1 /\ FormatJsonOf(JsonExtracted(prefix, prefix \o Body(len, shift)))

NextJson == FormatJsonShort \/ FormatJsonLong

SpecJson == InitFormat /\ [][NextJson]_vars

(***************************************************************************)
(* Properties of format_json                                               *)
(***************************************************************************)
FormattedJson == fmt_pc = "done" /\ fmt_mode = "json"

DefaultMaxResults == 5

QueryArgs == {None, Some(""), Some("rust ownership")}
UrlArgs == {None, Some(<<>>), Some(DestA), Some(RelativeHref)}
OutputArgs == {None, Some("out.md")}
Formats == {"markdown", "json", "text"}

\* the namespaces parse_args can return
Args ==
    [query : QueryArgs, url : UrlArgs, output : OutputArgs, format : Formats,
     max_results : {DefaultMaxResults}, verbose : BOOLEAN]

\* truth value of an Optional str: None and '' are false
Given(arg) == arg # None /\ Len(arg[1]) > 0

\* lines 362-366 without the test of line 365
UsageError_NeitherOnly(a) == ~Given(a.query) /\ ~Given(a.url)

\* lines 362-366: the two conditions that call parser.error
UsageError(a) ==
    \/ ~Given(a.query) /\ ~Given(a.url)
    \/ Given(a.query) /\ Given(a.url)

\* line 374
UrlMode(a) == Given(a.url)

\* line 394
SaveRequested(a) == Given(a.output)

\* line 183 without the query
EmptyDocument_NoQuery(q) == [results |-> <<>>]

\* line 183
EmptyDocument(q) == [query |-> q, results |-> <<>>]

\* line 377: not result
Absent(content) == content = None

\* line 382: not result.get('results')
NoResults(doc) == doc.results = <<>>

\* lines 386-391
FormatResult(format, data) == [format |-> format, data |-> data]

\* the loop of lines 199-210 trying a failed url again
AfterFetch_RetryFailed(i, content) == IF content = None THEN i ELSE i + 1

\* lines 199-210: the for loop moves to the next stub whatever was returned
AfterFetch(i, content) == i + 1

\* the exit status: return of main (0), sys.exit(1) of lines 378 and 383,
\* line 412, line 406, parser.error
ExitStatus(how) ==
    CASE how = "ok" -> 0
      [] how = "empty" -> 1
      [] how = "error" -> 1
      [] how = "interrupt" -> 130
      [] how = "usage" -> 2

\* lines 408-411: what the handler of Exception prints
ErrorEvents(a) ==
    IF a.verbose THEN <<"error_message", "traceback">> ELSE <<"error_message">>

ExitWith(how, events) ==
    /\ exit_code' = Some(ExitStatus(how))
    /\ trace' = trace \o events
    /\ m_pc' = "exit"

\* the containers of the results page in a run of main()
MainContainers ==
    { NoAnchor,
      Anchor("direct", DestA, TRUE, "about a"),
      Anchor("wrapped", Wrap(DestA, <<"&", "rut=", "r1">>), FALSE, "") }

MainSearchReplies ==
    {[ok |-> FALSE, page |-> <<>>]} \cup
    {[ok |-> TRUE, page |-> p] : p \in SeqsUpTo(MainContainers, MaxMainContainers)}

InitMain ==
    /\ TopicIdle /\ ExtIdle /\ FmtIdle /\ SyncIdle
    /\ m_pc = "start"
    /\ args \in Args
    /\ exit_code = None
    /\ trace = <<>>
    /\ outstanding = 0
    /\ file = "old"
    /\ m_output = None
    /\ consumed = 0

\* lines 362-381: the validation, then the call of research_url or of
\* research_topic
MainValidate ==
    /\ m_pc = "start"
    /\ IF UsageError(args)
       THEN /\ ExitWith("usage", <<"usage_error">>)
            /\ UNCHANGED topicVars
       ELSE /\ m_pc' = "research"
            /\ UNCHANGED <<exit_code, trace>>
            /\ IF UrlMode(args)
               THEN UNCHANGED topicVars
               ELSE /\ pc' = "search"
                    /\ query' = args.query[1]
                    /\ max_results' = args.max_results
                    /\ UNCHANGED <<response, search_results, idx, extracted_content,
                                   fetched, result>>
    /\ UNCHANGED <<args, outstanding, file, m_output, consumed, extVars, fmtVars,
                   syncVars>>

\* line 45: the search request leaves
SearchSend ==
    /\ m_pc = "research" /\ pc = "search"
    /\ outstanding' = outstanding + 1
    /\ trace' = Append(trace, "search_request")
    /\ m_pc' = "search_sent"
    /\ UNCHANGED <<topicVars, args, exit_code, file, m_output, consumed,
                   extVars, fmtVars, syncVars>>

\* lines 45-49 and 81-83, 181-183: the reply arrives; a failure makes
\* search return [] and research_topic return at once
SearchReply ==
    /\ m_pc = "search_sent"
    /\ \E reply \in MainSearchReplies :
          /\ response' = reply
          /\ IF reply.ok
             THEN /\ m_pc' = "parse"
                  /\ UNCHANGED <<pc, result>>
             ELSE /\ m_pc' = "check"
                  /\ pc' = "done"
                  /\ result' = Some(EmptyDocument(query))
    /\ outstanding' = outstanding - 1
    /\ UNCHANGED <<query, max_results, search_results, idx, extracted_content, fetched,
                   args, exit_code, trace, file, m_output, consumed,
                   extVars, fmtVars, syncVars>>

\* the containers the for loop of line 52 goes through
Capped == SliceTo(response.page, max_results)

\* lines 52-77: one iteration of the for loop
ParseStep ==
    /\ m_pc = "parse"
    /\ consumed < Len(Capped)
    /\ LET c == Capped[consumed + 1]
       IN  search_results' = IF c.title_tag THEN Append(search_results, Stub(c))
                             ELSE search_results
    /\ consumed' = consumed + 1
    /\ UNCHANGED <<pc, query, max_results, response, idx, extracted_content, fetched,
                   result, m_pc, args, exit_code, trace, outstanding, file, m_output,
                   extVars, fmtVars, syncVars>>

\* lines 64-77: one iteration in which the interrupt arrives inside the try
\* of lines 64-69; the bare except of line 70 catches it, url keeps the
\* href, and the loop goes on
ParseInterrupted ==
    /\ m_pc = "parse"
    /\ consumed < Len(Capped)
    /\ LET c == Capped[consumed + 1]
       IN  /\ c.title_tag
           /\ StartsWithWrapper(c.href)
           /\ search_results' =
                 Append(search_results,
                        [title |-> c.title, url |-> c.href,
                         snippet |-> IF c.snippet_tag THEN c.snippet ELSE ""])
    /\ consumed' = consumed + 1
    /\ trace' = Append(trace, "interrupt")
    /\ UNCHANGED <<pc, query, max_results, response, idx, extracted_content, fetched,
                   result, m_pc, args, exit_code, outstanding, file, m_output,
                   extVars, fmtVars, syncVars>>

\* lines 79 and 181-185: search returns; research_topic returns at once
\* when the list is empty
ParseDone ==
    /\ m_pc = "parse"
    /\ consumed = Len(Capped)
    /\ IF search_results = <<>>
       THEN /\ result' = Some(EmptyDocument(query))
            /\ pc' = "done"
            /\ m_pc' = "check"
       ELSE /\ pc' = "loop"
            /\ m_pc' = "fetch"
            /\ UNCHANGED result
    /\ UNCHANGED <<query, max_results, response, search_results, idx,
                   extracted_content, fetched,
                   args, exit_code, trace, outstanding, file, m_output, consumed,
                   extVars, fmtVars, syncVars>>

\* lines 203 and 110: fetch_content is called on the next stub; the request
\* leaves unless requests rejects the url
FetchSend ==
    /\ m_pc = "fetch"
    /\ idx < Len(search_results)
    /\ outstanding' = IF IsAbsolute(search_results[idx + 1].url)
                      THEN outstanding + 1 ELSE outstanding
    /\ trace' = Append(trace, "fetch")
    /\ m_pc' = "fetch_sent"
    /\ UNCHANGED <<topicVars, args, exit_code, file, m_output, consumed,
                   extVars, fmtVars, syncVars>>

\* lines 110-146 and 204-210: fetch_content returns, the stub is collected
FetchReply ==
    /\ m_pc = "fetch_sent"
    /\ LET stub == search_results[idx + 1]
       IN  /\ \E reply \in FetchReplies(stub.url, SamplePages) :
                 LET content == FetchContent(stub.url, reply)
                 IN  /\ extracted_content' = Collect(extracted_content, stub, content)
                     /\ fetched' = Append(fetched, [url |-> stub.url, kind |-> reply.kind,
                                                    content |-> content])
                     /\ idx' = AfterFetch(idx, content)
           /\ outstanding' = IF IsAbsolute(stub.url) THEN outstanding - 1 ELSE outstanding
    /\ m_pc' = "fetch"
    /\ UNCHANGED <<pc, query, max_results, response, search_results, result,
                   args, exit_code, trace, file, m_output, consumed,
                   extVars, fmtVars, syncVars>>

\* lines 212-217
TopicDone ==
    /\ m_pc = "fetch"
    /\ idx = Len(search_results)
    /\ result' = Some([query |-> query, results |-> extracted_content])
    /\ pc' = "done"
    /\ m_pc' = "check"
    /\ UNCHANGED <<query, max_results, response, search_results, idx,
                   extracted_content, fetched,
                   args, exit_code, trace, outstanding, file, m_output, consumed,
                   extVars, fmtVars, syncVars>>

\* lines 376, 239 and 110: research_url calls fetch_content
UrlSend ==
    /\ m_pc = "research" /\ UrlMode(args)
    /\ ext_url' = args.url[1]
    /\ ext_pc' = "sent"
    /\ outstanding' = IF IsAbsolute(args.url[1]) THEN outstanding + 1 ELSE outstanding
    /\ trace' = Append(trace, "fetch")
    /\ m_pc' = "url_sent"
    /\ UNCHANGED <<topicVars, ext_reply, ext_result, args, exit_code, file, m_output,
                   consumed, fmtVars, syncVars>>

\* lines 110-146 and 241-246
UrlReply ==
    /\ m_pc = "url_sent"
    /\ \E reply \in FetchReplies(ext_url, SamplePages) :
          /\ ext_reply' = reply
          /\ ext_result' = FetchContent(ext_url, reply)
    /\ ext_pc' = "done"
    /\ outstanding' = IF IsAbsolute(ext_url) THEN outstanding - 1 ELSE outstanding
    /\ m_pc' = "check"
    /\ UNCHANGED <<topicVars, ext_url, args, exit_code, trace, file, m_output,
                   consumed, fmtVars, syncVars>>

\* lines 377-378 and 382-383
MainCheck ==
    /\ m_pc = "check"
    /\ IF (IF UrlMode(args) THEN Absent(ext_result) ELSE NoResults(result[1]))
       THEN ExitWith("empty", <<>>)
       ELSE /\ m_pc' = "format"
            /\ UNCHANGED <<exit_code, trace>>
    /\ UNCHANGED <<topicVars, extVars, args, outstanding, file, m_output, consumed,
                   fmtVars, syncVars>>

\* lines 386-391
MainFormat ==
    /\ m_pc = "format"
    /\ m_output' = Some(FormatResult(args.format,
                                     IF UrlMode(args) THEN ext_result[1] ELSE result[1]))
    /\ m_pc' = "emit"
    /\ UNCHANGED <<topicVars, extVars, args, exit_code, trace, outstanding, file,
                   consumed, fmtVars, syncVars>>

\* line 395: open(args.output, 'w') empties the file, or raises OSError
MainOpen ==
    /\ m_pc = "emit" /\ SaveRequested(args)
    /\ \/ /\ file' = "empty"
          /\ trace' = Append(trace, "open")
          /\ m_pc' = "opened"
          /\ UNCHANGED exit_code
       \/ /\ ExitWith("error", ErrorEvents(args))
          /\ UNCHANGED file
    /\ UNCHANGED <<topicVars, extVars, args, outstanding, m_output, consumed,
                   fmtVars, syncVars>>

\* line 396: f.write(output) writes the whole string, or raises OSError
\* part of the way
MainWrite ==
    /\ m_pc = "opened"
    /\ \/ /\ file' = "written"
          /\ trace' = Append(trace, "write")
          /\ m_pc' = "saved"
          /\ UNCHANGED exit_code
       \/ /\ file' = "partial"
          /\ ExitWith("error", ErrorEvents(args))
    /\ UNCHANGED <<topicVars, extVars, args, outstanding, m_output, consumed,
                   fmtVars, syncVars>>

\* line 397, then main returns
MainSaved ==
    /\ m_pc = "saved"
    /\ ExitWith("ok", <<"saved_message">>)
    /\ UNCHANGED <<topicVars, extVars, args, outstanding, file, m_output, consumed,
                   fmtVars, syncVars>>

\* lines 399-402, then main returns
MainPrint ==
    /\ m_pc = "emit" /\ ~SaveRequested(args)
    /\ ExitWith("ok", <<"print_output">>)
    /\ UNCHANGED <<topicVars, extVars, args, outstanding, file, m_output, consumed,
                   fmtVars, syncVars>>

\* the positions of main() inside the try block of lines 373-402
TryPositions ==
    {"research", "search_sent", "parse", "fetch", "fetch_sent", "url_sent",
     "check", "format", "emit", "opened", "saved"}

\* lines 404-406: an interrupt anywhere else in the try block ends the
\* request in flight, closes the file and reaches the handler
MainInterrupt ==
    /\ m_pc \in TryPositions
    /\ ExitWith("interrupt", <<"interrupt", "interrupted_message">>)
    /\ outstanding' = 0
    /\ UNCHANGED <<topicVars, extVars, args, file, m_output, consumed,
                   fmtVars, syncVars>>

NextMain ==
    \/ MainValidate \/ SearchSend \/ SearchReply
    \/ ParseStep \/ ParseInterrupted \/ ParseDone
    \/ FetchSend \/ FetchReply \/ TopicDone
    \/ UrlSend \/ UrlReply
    \/ MainCheck \/ MainFormat
    \/ MainOpen \/ MainWrite \/ MainSaved \/ MainPrint
    \/ MainInterrupt

SpecMain == InitMain /\ [][NextMain]_vars

(***************************************************************************)
(* Properties of main()                                                    *)
(***************************************************************************)
Exited == m_pc = "exit"
Code == exit_code[1]
Has(e) == \E k \in 1..Len(trace) : trace[k] = e
Count(e) == Cardinality({k \in 1..Len(trace) : trace[k] = e})
TopicMode == ~UsageError(args) /\ ~UrlMode(args)

\* the document main() holds after the research call
Researched == IF UrlMode(args) THEN ext_result ELSE result

\* the research call produced something to format
NonEmptyResult ==
    /\ Researched # None
    /\ TopicMode => Researched[1].results # <<>>

\* the formatted result went to the file or to the console
Emitted == Has("write") \/ Has("print_output")

\* C12: every run of main() that passes the validation ends with exit code
\* 0, 1 or 130 and with nothing else: 0 when a non-empty result was
\* formatted in the requested format and emitted, 1 when the url-mode
\* extraction is absent, the topic-mode document has no results, or an
\* exception was raised in the try block, 130 when the user interrupts;
\* a run the user interrupted ends with 130, and no run ends with 0 and
\* nothing emitted.
C12_ExitCodes ==
    (Exited /\ ~UsageError(args)) =>
        /\ Code \in {0, 1, 130}
        /\ Code = 0 => /\ NonEmptyResult
                       /\ m_output = Some(FormatResult(args.format, Researched[1]))
                       /\ Emitted
        /\ Code = 1 => \/ UrlMode(args) /\ ext_pc = "done" /\ ext_result = None
                       \/ TopicMode /\ result # None /\ result[1].results = <<>>
                       \/ Has("error_message")
        /\ Code = 130 => Has("interrupt")
        /\ Has("interrupt") => Code = 130

\* the two arguments, read without the code's tests: an argument is given
\* when it is there and is not the empty string
QueryGiven == args.query \notin {None, Some("")}
UrlGiven == args.url \notin {None, Some(<<>>)}

\* C13: when the query and --url are both given or both missing (an empty
\* query counts as missing), main() ends with a usage error and a non-zero
\* status, having sent no request, opened no file and printed no result;
\* when exactly one is given there is no usage error.
C13_UsageError ==
    (m_pc # "start") =>
        IF QueryGiven <=> UrlGiven
        THEN /\ Exited /\ Code # 0
             /\ trace = <<"usage_error">>
             /\ outstanding = 0 /\ file = "old" /\ m_output = None
             /\ fetched = <<>> /\ ext_pc = "idle" /\ pc = "idle"
        ELSE ~Has("usage_error") /\ exit_code # Some(ExitStatus("usage"))

\* a run with both arguments given has ended with the usage error
C13_Witness ==
    /\ Exited
    /\ QueryGiven /\ UrlGiven
    /\ Has("usage_error")

\* C14: in research_topic the calls of fetch_content follow the stubs in
\* rank order, one call per stub: the k-th call is for the k-th stub, a
\* stub is never tried twice, at most one request is in flight, and when
\* research_topic returns after the loop every stub has had its call,
\* whichever of them failed (timeout, HTTP error, unusable page, rejected
\* url).
C14_OneFetchPerStub ==
    TopicMode =>
        /\ outstanding <= 1
        /\ Len(fetched) = idx
        /\ Len(fetched) <= Len(search_results)
        /\ \A k \in 1..Len(fetched) : fetched[k].url = search_results[k].url
        /\ Count("fetch") \in {Len(fetched), Len(fetched) + 1}
        /\ m_pc \in {"fetch", "check"} => Count("fetch") = Len(fetched)
        /\ m_pc = "fetch_sent" => outstanding = (IF IsAbsolute(search_results[idx + 1].url)
                                                 THEN 1 ELSE 0)
        /\ (pc = "done" /\ search_results # <<>>) => Len(fetched) = Len(search_results)

\* research_topic has returned after two calls, the first failed and the
\* second succeeded
C14_Witness ==
    /\ TopicMode
    /\ pc = "done"
    /\ Len(search_results) = 2
    /\ Len(fetched) = 2
    /\ fetched[1].content = None
    /\ fetched[1].kind \in FailureKinds
    /\ fetched[2].content # None

\* the events that issue a fetch or emit output
ActingEvents == {"search_request", "fetch", "open", "write", "print_output",
                 "saved_message"}

\* C15: once an interrupt has arrived in the try block of main(), the run
\* calls fetch_content no more, emits nothing, and exits with status 130
\* and without a traceback.
C15_InterruptStops ==
    /\ \A k \in 1..Len(trace) :
          trace[k] = "interrupt" =>
              \A j \in (k + 1)..Len(trace) : trace[j] \notin ActingEvents
    /\ (Exited /\ Has("interrupt")) => Code = 130 /\ ~Has("traceback")
    /\ (Has("interrupt") /\ ~Exited) => m_pc \notin {"fetch_sent", "url_sent"}

\* the stubs the capped containers give, read without the stepwise loop
StubsOfPage == ParseContainers(Capped)

\* C16: when the search request fails or the page gives no stub,
\* research_topic returns the document of the query with an empty results
\* list, without any call of fetch_content and without an exception
\* reaching main().
C16_EmptySearch ==
    (TopicMode /\ m_pc = "check" /\ (~response.ok \/ StubsOfPage = <<>>)) =>
        /\ pc = "done"
        /\ result = Some([query |-> args.query[1], results |-> <<>>])
        /\ fetched = <<>>
        /\ ~Has("fetch")
        /\ ~Has("error_message")
        /\ exit_code = None

\* research_topic has returned on a page whose containers have no anchor
C16_Witness ==
    /\ TopicMode
    /\ m_pc = "check"
    /\ response.ok
    /\ response.page # <<>>
    /\ StubsOfPage = <<>>
    /\ result = Some([query |-> args.query[1], results |-> <<>>])

\* an interrupt arrived before the file was opened
InterruptBeforeOpen ==
    \E k \in 1..Len(trace) :
        /\ trace[k] = "interrupt"
        /\ \A j \in 1..(k - 1) : trace[j] # "open"

\* C17: the file at --output is opened only after the research call gave a
\* non-empty result and the formatter returned; the file is as it was
\* after a run that ended with status 1 for an empty result, after a usage
\* error, and after a run in which an interrupt arrived before the file
\* was opened.
C17_OutputFile ==
    /\ file # "old" => NonEmptyResult /\ m_output # None /\ SaveRequested(args)
    /\ (Exited /\ Code = 1 /\ ~Has("error_message")) => file = "old"
    /\ (Exited /\ Has("usage_error")) => file = "old"
    /\ (Exited /\ InterruptBeforeOpen) => file = "old"

(***************************************************************************)
(* The sync command of the github agent (src/github_agent.py, lines        *)
(* 525-531) with GitOperations.pull, has_uncommitted_changes, commit and   *)
(* push, one git command per step.  A git command ends with status 0       *)
(* ("ok"), ends with another status ("fail"), or cannot be started         *)
(* ("raise": subprocess.run raises and run_git_command calls sys.exit(1)). *)
(* sync_log lists the calls of pull, commit and push, the git commands     *)
(* that ran with how they ended, and the messages of main().               *)
(***************************************************************************)
GitOutcomes == {"ok", "fail", "raise"}
StatusOutcomes == {"dirty", "clean", "raise"}

\* line 528 with the commit attempted whatever git status prints
CommitWanted_Always(o) == o # "raise"

\* line 528: has_uncommitted_changes() is true when git status --porcelain
\* prints something
CommitWanted(o) == o = "dirty"

InitSync ==
    /\ TopicIdle /\ ExtIdle /\ FmtIdle /\ MainIdle
    /\ sync_pc = "start"
    /\ sync_log = <<>>
    /\ sync_exit = None

\* lines 24-36: run_git_command runs cmd; events are logged after it when
\* it returns; when it cannot be started the process exits with status 1
RunGit(cmd, o, next, events) ==
    IF o = "raise"
    THEN /\ sync_log' = Append(sync_log, <<cmd, "not started">>)
         /\ sync_exit' = Some(1)
         /\ sync_pc' = "exit"
    ELSE /\ sync_log' = Append(sync_log, <<cmd, o>>) \o events
         /\ sync_pc' = next
         /\ UNCHANGED sync_exit

Others == <<topicVars, extVars, fmtVars, mainVars>>

\* lines 526-527: the first message, then pull() is called
SyncStart ==
    /\ sync_pc = "start"
    /\ sync_log' = <<<<"print", "Syncing repository...">>, <<"call", "pull">>>>
    /\ sync_pc' = "pull.is_git_repo"
    /\ UNCHANGED <<sync_exit, Others>>

\* lines 102-104: outside a repository pull returns False
PullIsRepo ==
    /\ sync_pc = "pull.is_git_repo"
    /\ \E o \in GitOutcomes :
          RunGit("git rev-parse", o,
                 IF o = "ok" THEN "pull.branch" ELSE "has_uncommitted_changes", <<>>)
    /\ UNCHANGED Others

\* lines 106 and 44-50: get_current_branch returns None when the command
\* fails
PullBranch ==
    /\ sync_pc = "pull.branch"
    /\ \E o \in GitOutcomes :
          RunGit("git branch", o, IF o = "ok" THEN "pull.run" ELSE "pull.run_none", <<>>)
    /\ UNCHANGED Others

\* lines 108-116: git pull origin <branch>; with None for the branch
\* subprocess.run raises TypeError
PullRun ==
    /\ \/ /\ sync_pc = "pull.run"
          /\ \E o \in GitOutcomes : RunGit("git pull", o, "has_uncommitted_changes", <<>>)
       \/ /\ sync_pc = "pull.run_none"
          /\ RunGit("git pull", "raise", "has_uncommitted_changes", <<>>)
    /\ UNCHANGED Others

\* line 528 and lines 60-64: commit() is called when the tree is dirty,
\* push() otherwise
SyncCheck ==
    /\ sync_pc = "has_uncommitted_changes"
    /\ \E o \in StatusOutcomes :
          IF CommitWanted(o)
          THEN RunGit("git status", o, "commit.is_git_repo", <<<<"call", "commit">>>>)
          ELSE RunGit("git status", o, "push.is_git_repo", <<<<"call", "push">>>>)
    /\ UNCHANGED Others

\* lines 146-148: outside a repository commit returns False, then line 530
CommitIsRepo ==
    /\ sync_pc = "commit.is_git_repo"
    /\ \E o \in GitOutcomes :
          IF o = "ok"
          THEN RunGit("git rev-parse", o, "commit.add", <<>>)
          ELSE RunGit("git rev-parse", o, "push.is_git_repo", <<<<"call", "push">>>>)
    /\ UNCHANGED Others

\* lines 150-152: git add . ; its status is not looked at
CommitAdd ==
    /\ sync_pc = "commit.add"
    /\ \E o \in GitOutcomes : RunGit("git add", o, "commit.status", <<>>)
    /\ UNCHANGED Others

\* lines 154-156: nothing to commit, commit returns False, then line 530
CommitStatus ==
    /\ sync_pc = "commit.status"
    /\ \E o \in StatusOutcomes :
          IF o = "dirty"
          THEN RunGit("git status", o, "commit.run", <<>>)
          ELSE RunGit("git status", o, "push.is_git_repo", <<<<"call", "push">>>>)
    /\ UNCHANGED Others

\* lines 158-167: git commit -m message, then line 530
CommitRun ==
    /\ sync_pc = "commit.run"
    /\ \E o \in GitOutcomes :
          RunGit("git commit", o, "push.is_git_repo", <<<<"call", "push">>>>)
    /\ UNCHANGED Others

\* lines 121-123: outside a repository push returns False
PushIsRepo ==
    /\ sync_pc = "push.is_git_repo"
    /\ \E o \in GitOutcomes :
          RunGit("git rev-parse", o, IF o = "ok" THEN "push.branch" ELSE "complete", <<>>)
    /\ UNCHANGED Others

\* line 125
PushBranch ==
    /\ sync_pc = "push.branch"
    /\ \E o \in GitOutcomes :
          RunGit("git branch", o, IF o = "ok" THEN "push.run" ELSE "push.run_none", <<>>)
    /\ UNCHANGED Others

\* lines 127-141: git push origin <branch>
PushRun ==
    /\ \/ /\ sync_pc = "push.run"
          /\ \E o \in GitOutcomes : RunGit("git push", o, "complete", <<>>)
       \/ /\ sync_pc = "push.run_none"
          /\ RunGit("git push", "raise", "complete", <<>>)
    /\ UNCHANGED Others

\* line 531, then main returns
SyncComplete ==
    /\ sync_pc = "complete"
    /\ sync_log' = Append(sync_log, <<"print", "Sync complete!">>)
    /\ sync_exit' = Some(0)
    /\ sync_pc' = "exit"
    /\ UNCHANGED Others

\* lines 533-535: an interrupt anywhere in the try block
SyncInterrupt ==
    /\ sync_pc \notin {"idle", "exit"}
    /\ sync_log' = Append(sync_log, <<"print", "Operation cancelled">>)
    /\ sync_exit' = Some(130)
    /\ sync_pc' = "exit"
    /\ UNCHANGED Others

NextSync ==
    \/ SyncStart \/ PullIsRepo \/ PullBranch \/ PullRun
    \/ SyncCheck
    \/ CommitIsRepo \/ CommitAdd \/ CommitStatus \/ CommitRun
    \/ PushIsRepo \/ PushBranch \/ PushRun
    \/ SyncComplete \/ SyncInterrupt

SpecSync == InitSync /\ [][NextSync]_vars

(***************************************************************************)
(* Properties of sync                                                      *)
(***************************************************************************)
Logged(e) == \E k \in 1..Len(sync_log) : sync_log[k] = e
Times(e) == Cardinality({k \in 1..Len(sync_log) : sync_log[k] = e})
Called(step) == Logged(<<"call", step>>)
SyncEnded == sync_pc = "exit"
Cancelled == Logged(<<"print", "Operation cancelled">>)
NotStarted == \E k \in 1..Len(sync_log) : sync_log[k][2] = "not started"

\* pull, commit, push are called in this order, each at most once, and
\* commit only right after git status has shown a dirty tree
SyncOrder ==
    /\ \A step \in {"pull", "commit", "push"} : Times(<<"call", step>>) <= 1
    /\ \A i, j \in 1..Len(sync_log) :
          /\ (sync_log[i] = <<"call", "pull">> /\ sync_log[j] = <<"call", "commit">>) => i < j
          /\ (sync_log[i] = <<"call", "commit">> /\ sync_log[j] = <<"call", "push">>) => i < j
          /\ (sync_log[i] = <<"call", "pull">> /\ sync_log[j] = <<"call", "push">>) => i < j
    /\ \A j \in 1..Len(sync_log) :
          sync_log[j] = <<"call", "commit">> =>
              /\ j > 1 /\ sync_log[j - 1] = <<"git status", "dirty">>
              /\ \E i \in 1..(j - 1) : sync_log[i] = <<"call", "pull">>
    /\ \A j \in 1..Len(sync_log) :
          sync_log[j] = <<"git add", "ok">> \/ sync_log[j] = <<"git add", "fail">> =>
              \E i \in 1..(j - 1) : sync_log[i] = <<"call", "commit">>

\* C18 as stated: the steps run in the order pull, commit (with git add,
\* only after a dirty status), push, none twice, and every run that is not
\* cancelled by the user calls push and prints 'Sync complete!'.
C18_AsStated ==
    /\ SyncOrder
    /\ (SyncEnded /\ ~Cancelled) => Called("push") /\ Logged(<<"print", "Sync complete!">>)

\* C18: the steps run in the order pull, commit (with git add, only after
\* a dirty status), push, none twice; every run that is not cancelled and
\* in which every git command could be started calls push, prints 'Sync
\* complete!' and ends with status 0, whatever the statuses of git pull and
\* git commit; a git command that cannot be started ends the run at once
\* with status 1 and without 'Sync complete!'.
C18_SyncSteps ==
    /\ SyncOrder
    /\ (SyncEnded /\ ~Cancelled /\ ~NotStarted) =>
          /\ Called("push")
          /\ sync_log[Len(sync_log)] = <<"print", "Sync complete!">>
          /\ sync_exit = Some(0)
    /\ (SyncEnded /\ NotStarted) =>
          /\ sync_log[Len(sync_log)][2] = "not started"
          /\ sync_exit = Some(1)
          /\ ~Logged(<<"print", "Sync complete!">>)

\* a run in which git pull and git commit both failed and that went on to
\* push and to 'Sync complete!'
C18_Witness ==
    /\ SyncEnded
    /\ Logged(<<"git pull", "fail">>)
    /\ Logged(<<"git commit", "fail">>)
    /\ Logged(<<"git push", "ok">>)
    /\ Logged(<<"print", "Sync complete!">>)

====
